---- MODULE Spec2Model ----
(***************************************************************************)
(* Model of the "moj broj" (countdown numbers) solver:                     *)
(*   search.py          - SearchNode and AStarSearch.do_search             *)
(*   moj_broj_solver.py - CountDownNumbers.find_solution and replay        *)
(*   parser.py          - BinaryIntegerArithmeticExpression                *)
(*                                                                         *)
(* Python objects are modelled by value: a SearchNode is a record whose    *)
(* parent field is <<>> (None) or <<node>>, a list is a sequence, a dict   *)
(* is a function.  Expression objects created by find_solution live in the *)
(* object table objs and are referred to by their index, so that sharing   *)
(* of an operand between two nodes is visible.                             *)
(***************************************************************************)
EXTENDS Integers, Sequences, FiniteSets, TLC

\* ---------------------------------------------------------------- bounds
MaxNums == 3        \* longest initial list of numbers
NegNumber == 1      \* initial numbers are drawn from -NegNumber .. MaxNumber
MaxNumber == 2
MaxTarget == 5      \* targets are drawn from 0 .. MaxTarget
MaxTol == 1         \* tolerances are drawn from 0 .. MaxTol
MaxDepth == 2       \* max_depth is drawn from 0 (None) .. MaxDepth
MaxLeaves == 3      \* most literals in the expressions a caller constructs
MaxTextLen == 4     \* longest text handed to parse directly
MaxInfixSize == 4   \* most literals plus parenthesis pairs in a text typed in

\* the literals a caller of parser.py builds expressions from
ExprLiterals == {-1, 0, 2, 12}

\* the literals of the infix texts typed in for parse
InfixLiterals == {1, 2, 4, 12}

\* the characters of the texts handed to parse directly ("x" is no symbol
\* of the grammar)
TextAlphabet == {"0", "1", "2", " ", "(", ")", "+", "-", "*", "/", "x"}

VARIABLES
    brojevi,        \* CountDownNumbers.brojevi: the initial numbers
    cilj,           \* CountDownNumbers.cilj: the target
    tolerance,      \* the tolerance argument of find_solution
    max_depth,      \* AStarSearch.max_depth; 0 stands for None (both falsy)
    frontier,       \* do_search: the heap list of (sortkey, node) entries
    fset,           \* do_search: ids that were pushed on the frontier
    visited,        \* do_search: dict id -> node
    current,        \* do_search: <<>> or <<the node popped last>>
    pending,        \* do_search: children of current still to be looped over
    popped_ids,     \* do_search: the ids of the nodes heappop returned, in order
    result,         \* first component of do_search's return value
    path,           \* second component of do_search's return value
    objs,           \* the Expression objects created by find_solution
    expressions,    \* moves_to_expression: the live list (indices into objs)
    moves,          \* moves_to_expression: the moves still to be replayed
    expression,     \* <<>> or <<index into objs>>: find_solution's Expression
    outcome,        \* "running", "returned" or the name of the exception raised
    stack,          \* the Expressions a caller of parser.py has constructed
    attempt,        \* <<>> or <<the last operator-node constructor call>>
    value_read,     \* <<>> or <<the last read of an Expression's value>>
    text,           \* the string handed to parse
    removed,        \* 0, or the parenthesis pair taken out of str()'s output
    parsed,         \* what parse(text) did
    pc              \* position in find_solution / do_search / the parser use

search_vars == <<frontier, fset, visited, current, pending, popped_ids, result,
                path>>
replay_vars == <<objs, expressions, moves, expression>>
input_vars == <<brojevi, cilj, tolerance, max_depth>>
expr_vars == <<stack, attempt, value_read, text, removed, parsed>>
vars == <<input_vars, search_vars, replay_vars, outcome, expr_vars, pc>>

\* --------------------------------------------------- Python integer helpers
Abs(n) == IF n < 0 THEN -n ELSE n

\* Python's a % b for b # 0: the result takes the sign of the divisor.
PyMod(a, b) == IF b > 0 THEN a % b ELSE -((-a) % (-b))

\* Python's int(a / b) for b # 0: true division, truncated towards zero.
\* (Exact for every quotient below 2^53, which covers the model's integers.)
IntTrueDiv(a, b) ==
    IF (a < 0) = (b < 0) THEN Abs(a) \div Abs(b) ELSE -(Abs(a) \div Abs(b))

\* moj_broj_solver.get_result
get_result(n1, n2, operator) ==
    CASE operator = "+" -> n1 + n2
      [] operator = "-" -> n1 - n2
      [] operator = "*" -> n1 * n2
      [] operator = "/" -> IntTrueDiv(n1, n2)

\* ------------------------------------------------------- list helpers
RECURSIVE RemoveFirst(_, _)
\* list.remove(v): drops the first element equal to v (v is present)
RemoveFirst(s, v) ==
    IF s = <<>> THEN <<>>
    ELSE IF Head(s) = v THEN Tail(s)
    ELSE <<Head(s)>> \o RemoveFirst(Tail(s), v)

Contains(s, v) == \E i \in 1..Len(s) : s[i] = v

RECURSIVE Insert(_, _)
Insert(sorted, v) ==
    IF sorted = <<>> THEN <<v>>
    ELSE IF v < Head(sorted) THEN <<v>> \o sorted
    ELSE <<Head(sorted)>> \o Insert(Tail(sorted), v)

RECURSIVE Sorted(_)
\* sorted(list) on integers
Sorted(s) == IF s = <<>> THEN <<>> ELSE Insert(Sorted(Tail(s)), Head(s))

RECURSIVE TupleLess(_, _)
\* Python's < on tuples of integers (lexicographic, a proper prefix is smaller)
TupleLess(s, t) ==
    IF t = <<>> THEN FALSE
    ELSE IF s = <<>> THEN TRUE
    ELSE IF Head(s) # Head(t) THEN Head(s) < Head(t)
    ELSE TupleLess(Tail(s), Tail(t))

RECURSIVE MinOf(_)
\* min(list) on a non-empty list of integers
MinOf(s) ==
    IF Len(s) = 1 THEN s[1]
    ELSE LET m == MinOf(Tail(s)) IN IF m < Head(s) THEN m ELSE Head(s)

\* ------------------------------------------------ the countdown domain
_id_unsorted(node) == node.data.brojevi

\* find_solution._id
_id(node) == Sorted(node.data.brojevi)

is_goal_exact(node, c, t) ==
    \E i \in 1..Len(node.data.brojevi) : node.data.brojevi[i] = c

\* find_solution.is_goal, for a tolerance t and target c
is_goal_for(node, c, t) ==
    \E i \in 1..Len(node.data.brojevi) : Abs(node.data.brojevi[i] - c) <= t

\* find_solution.heuristic, for a target c
heuristic_for(node, c) ==
    MinOf([i \in 1..Len(node.data.brojevi) |-> Abs(node.data.brojevi[i] - c)])

PairMovesUnordered(n1, n2) ==
    <<  <<n1, "*", n2>>, <<n1, "+", n2>> >>
    \o (IF n2 # 0 /\ PyMod(n1, n2) = 0 THEN << <<n1, "/", n2>> >> ELSE <<>>)
    \o (IF n1 # 0 /\ PyMod(n2, n1) = 0 THEN << <<n2, "/", n1>> >> ELSE <<>>)
    \o << <<n1, "-", n2>> >>

\* the moves possible_moves appends for one pair (n1, n2), in order
PairMoves(n1, n2) ==
    <<  <<n1, "*", n2>>, <<n1, "+", n2>> >>
    \o (IF n2 # 0 /\ PyMod(n1, n2) = 0 THEN << <<n1, "/", n2>> >> ELSE <<>>)
    \o (IF n1 # 0 /\ PyMod(n2, n1) = 0 THEN << <<n2, "/", n1>> >> ELSE <<>>)
    \o (IF n1 >= n2 THEN << <<n1, "-", n2>> >> ELSE << <<n2, "-", n1>> >>)

RECURSIVE MovesFrom(_, _, _)
\* the moves of the pairs (i, j), (i, j+1), ... in itertools.combinations order
MovesFrom(b, i, j) ==
    IF i >= Len(b) THEN <<>>
    ELSE IF j > Len(b) THEN MovesFrom(b, i + 1, i + 2)
    ELSE PairMoves(b[i], b[j]) \o MovesFrom(b, i, j + 1)

\* find_solution.possible_moves
possible_moves(node) == MovesFrom(node.data.brojevi, 1, 2)

\* SearchNode.__init__
SearchNode(data) == [data |-> data, parent |-> <<>>, move_to_reach |-> <<>>]

apply_move_keeps_n2(node, move) ==
    SearchNode([brojevi |->
        Append(RemoveFirst(node.data.brojevi, move[1]),
               get_result(move[1], move[3], move[2]))])

\* find_solution.apply_move
apply_move(node, move) ==
    LET n1 == move[1]
        operator == move[2]
        n2 == move[3]
        rest == RemoveFirst(RemoveFirst(node.data.brojevi, n1), n2)
    IN  SearchNode([brojevi |-> Append(rest, get_result(n1, n2, operator))])

\* ------------------------------------------------------------ SearchNode
expand_skips_last(node) ==
    LET ms == possible_moves(node)
    IN  [k \in 1..(Len(ms) - 1) |->
            [apply_move(node, ms[k]) EXCEPT !.parent = <<node>>,
                                            !.move_to_reach = ms[k]]]

\* SearchNode.expand
expand(node) ==
    LET ms == possible_moves(node)
    IN  [k \in 1..Len(ms) |->
            [apply_move(node, ms[k]) EXCEPT !.parent = <<node>>,
                                            !.move_to_reach = ms[k]]]

PathCostDefault == 1

RECURSIVE get_path_length(_)
\* SearchNode.get_path_length / compute_path_length (data has no 'path_cost')
get_path_length(node) ==
    IF node.parent = <<>> THEN 0
    ELSE PathCostDefault + get_path_length(node.parent[1])

RECURSIVE get_path_depth(_)
\* SearchNode.get_path_depth / compute_path_depth
get_path_depth(node) ==
    IF node.parent = <<>> THEN 0 ELSE 1 + get_path_depth(node.parent[1])

RECURSIVE ParentWalk(_)
\* the while loop of get_path: the moves from the node back to the root
ParentWalk(node) ==
    IF node.parent = <<>> THEN <<>>
    ELSE <<node.move_to_reach>> \o ParentWalk(node.parent[1])

NotReversed(s) == s

\* the list comprehension over reversed(moves) of get_path
Reversed(s) == [i \in 1..Len(s) |-> s[Len(s) + 1 - i]]

\* SearchNode.get_path
get_path(node) == Reversed(ParentWalk(node))

\* SearchNode.__lt__ (the tie-break of the heap entries)
NodeLess(a, b) == TupleLess(_id(a), _id(b))

\* SearchNode.__eq__
NodeEq(a, b) == _id(a) = _id(b)

\* ------------------------------------------------------------ AStarSearch
\* do_search.sortkey
sortkey(node, c) == get_path_length(node) + heuristic_for(node, c)

\* Python's < on the (sortkey, node) tuples of the heap
EntryLess(a, b) ==
    IF a.key # b.key THEN a.key < b.key
    ELSE IF NodeEq(a.node, b.node) THEN FALSE
    ELSE NodeLess(a.node, b.node)

KeepAt(s, i) == s

DropAt(s, i) == [k \in 1..(Len(s) - 1) |-> IF k < i THEN s[k] ELSE s[k + 1]]

StartNode == SearchNode([brojevi |-> brojevi])

AfterLoopBody(p) == IF p = <<>> THEN "while" ELSE "for"

\* do_search, lines 118-129: visited, frontier and fset are set up
Seed ==
    /\ UNCHANGED expr_vars
    /\ pc = "search"
    /\ visited' = << >>
    /\ frontier' = << [key |-> sortkey(StartNode, cilj), node |-> StartNode] >>
    /\ fset' = {_id(StartNode)}
    /\ popped_ids' = <<>>
    /\ pc' = "while"
    /\ UNCHANGED <<input_vars, current, pending, result, path, replay_vars, outcome>>

\* do_search, lines 131-138: heappop, the goal test and expand
Pop ==
    /\ UNCHANGED expr_vars
    /\ pc = "while"
    /\ frontier # <<>>
    /\ \E i \in 1..Len(frontier) :
        /\ \A k \in 1..Len(frontier) : ~EntryLess(frontier[k], frontier[i])
        /\ current' = <<frontier[i].node>>
        /\ popped_ids' = Append(popped_ids, _id(frontier[i].node))
        /\ frontier' = DropAt(frontier, i)
        /\ IF is_goal_for(frontier[i].node, cilj, tolerance)
           THEN /\ result' = TRUE
                /\ path' = get_path(frontier[i].node)
                /\ pending' = <<>>
                /\ pc' = "returned"
           ELSE /\ pending' = expand(frontier[i].node)
                /\ pc' = AfterLoopBody(pending')
                /\ UNCHANGED <<result, path>>
    /\ UNCHANGED <<input_vars, fset, visited, replay_vars, outcome>>

skip_none(new, vis, fs) == FALSE

\* do_search, lines 139-145: the two tests that skip a child (continue)
skips(new, vis, fs) ==
    \/ /\ _id(new) \in DOMAIN vis
       /\ get_path_length(new) >= get_path_length(vis[_id(new)])
    \/ _id(new) \in fs

\* do_search, lines 138-155: one pass of the for loop over the children
Child ==
    /\ UNCHANGED expr_vars
    /\ pc = "for"
    /\ pending # <<>>
    /\ LET new == Head(pending)
           k == _id(new)
       IN  /\ pending' = Tail(pending)
           /\ pc' = AfterLoopBody(pending')
           /\ IF skips(new, visited, fset)
              THEN UNCHANGED <<frontier, fset, visited>>
              ELSE /\ IF max_depth = 0 \/ get_path_depth(new) < max_depth
                      THEN /\ frontier' = Append(frontier,
                                  [key |-> sortkey(new, cilj), node |-> new])
                           /\ fset' = fset \cup {k}
                      ELSE UNCHANGED <<frontier, fset>>
                   /\ visited' = (k :> new) @@ visited
    /\ UNCHANGED <<input_vars, current, popped_ids, result, path, replay_vars,
                   outcome>>

\* do_search, line 157: the frontier is empty
Exhausted ==
    /\ UNCHANGED expr_vars
    /\ pc = "while"
    /\ frontier = <<>>
    /\ result' = FALSE
    /\ path' = <<>>
    /\ pc' = "returned"
    /\ UNCHANGED <<input_vars, frontier, fset, visited, current, pending,
                   popped_ids, replay_vars, outcome>>

\* ------------------------------------------------------------ Expression
\* BinaryIntegerArithmeticExpression(value): a literal (o is None)
Lit(n) == [o |-> "None", _value |-> n]

\* BinaryIntegerArithmeticExpression(op1=, op2=, o=): an operator node
Node(o, op1, op2) == [o |-> o, op1 |-> op1, op2 |-> op2]

RECURSIVE Value(_)
\* the value property (the cache in _value does not change what is returned)
Value(e) ==
    IF e.o = "None" THEN e._value
    ELSE LET v1 == Value(e.op1)
             v2 == Value(e.op2)
         IN  CASE e.o = "+" -> v1 + v2
               [] e.o = "-" -> v1 - v2
               [] e.o = "*" -> v1 * v2
               [] OTHER -> IntTrueDiv(v1, v2)

InitOutcomeSwapped(o, v1, v2) ==
    IF o # "/" THEN "ok"
    ELSE IF v1 = 0 THEN "ZeroDivisionError"
    ELSE IF PyMod(v2, v1) # 0 THEN "InvalidExpressionException"
    ELSE "ok"

\* __init__ with operands whose values are v1 and v2: "ok" or the exception
\* raised by the check of line 48 (the % itself raises on a zero divisor)
InitOutcome(o, v1, v2) ==
    IF o # "/" THEN "ok"
    ELSE IF v2 = 0 THEN "ZeroDivisionError"
    ELSE IF PyMod(v1, v2) # 0 THEN "InvalidExpressionException"
    ELSE "ok"

\* an Expression object of the table: literals have no operands (0)
LitObj(n) == [o |-> "None", _value |-> n, op1 |-> 0, op2 |-> 0]
NodeObjSwapped(o, i1, i2) == [o |-> o, _value |-> 0, op1 |-> i2, op2 |-> i1]
NodeObj(o, i1, i2) == [o |-> o, _value |-> 0, op1 |-> i1, op2 |-> i2]

RECURSIVE TreeOf(_, _)
\* the expression tree that hangs below object i of the table
TreeOf(tab, i) ==
    IF tab[i].o = "None" THEN Lit(tab[i]._value)
    ELSE Node(tab[i].o, TreeOf(tab, tab[i].op1), TreeOf(tab, tab[i].op2))

ObjValue(tab, i) == Value(TreeOf(tab, i))

\* Python's < on the (abs(e.value - cilj), e) tuples: the difference first,
\* then object equality (identity), then __lt__ (by value)
DiffLess(tab, c, a, b) ==
    LET da == Abs(ObjValue(tab, a) - c)
        db == Abs(ObjValue(tab, b) - c)
    IN  IF da # db THEN da < db
        ELSE IF a = b THEN FALSE
        ELSE ObjValue(tab, a) < ObjValue(tab, b)

RECURSIVE MinFrom(_, _, _, _)
\* min() over the rest of the list with the best element so far
MinFrom(tab, c, list, best) ==
    IF list = <<>> THEN best
    ELSE IF DiffLess(tab, c, Head(list), best)
         THEN MinFrom(tab, c, Tail(list), Head(list))
         ELSE MinFrom(tab, c, Tail(list), best)

ClosestIsFirst(tab, c, list) == Head(list)

\* min([(abs(e.value - cilj), e) for e in list])[1], list not empty
Closest(tab, c, list) == MinFrom(tab, c, Tail(list), Head(list))

RECURSIVE FirstWithValue(_, _, _, _)
\* extract_expression's loop: the position in list (from position i on) of
\* the first expression whose value is val, 0 when there is none
FirstWithValue(tab, list, val, i) ==
    IF i > Len(list) THEN 0
    ELSE IF ObjValue(tab, list[i]) = val THEN i
    ELSE FirstWithValue(tab, list, val, i + 1)

extract_pos(tab, list, val) == FirstWithValue(tab, list, val, 1)

extract_keep(list, p) == list

\* extract_expression, line 133: expressions.remove(to_extract)
extract_remove(list, p) == DropAt(list, p)

\* ---------------------------------------------------------- find_solution
\* find_solution, lines 111-112
NoPath ==
    /\ UNCHANGED expr_vars
    /\ pc = "returned"
    /\ ~result
    /\ outcome' = "CountDownNumbersException"
    /\ pc' = "done"
    /\ UNCHANGED <<input_vars, search_vars, replay_vars>>

Literals == [i \in 1..Len(brojevi) |-> LitObj(brojevi[i])]
Indices(n) == [i \in 1..n |-> i]

\* find_solution, lines 115-121: the goal was already among the numbers
Trivial ==
    /\ UNCHANGED expr_vars
    /\ pc = "returned"
    /\ result
    /\ path = <<>>
    /\ objs' = Literals
    /\ expressions' = Indices(Len(brojevi))
    /\ expression' = <<Closest(objs', cilj, expressions')>>
    /\ outcome' = "returned"
    /\ pc' = "done"
    /\ UNCHANGED <<input_vars, search_vars, moves>>

\* find_solution line 123 and moves_to_expression line 136
BeginReplay ==
    /\ UNCHANGED expr_vars
    /\ pc = "returned"
    /\ result
    /\ path # <<>>
    /\ objs' = Literals
    /\ expressions' = Indices(Len(brojevi))
    /\ moves' = path
    /\ pc' = "replay"
    /\ UNCHANGED <<input_vars, search_vars, expression, outcome>>

\* moves_to_expression, lines 137-143: one move is replayed
ReplayMove ==
    /\ UNCHANGED expr_vars
    /\ pc = "replay"
    /\ moves # <<>>
    /\ LET n1 == Head(moves)[1]
           op == Head(moves)[2]
           n2 == Head(moves)[3]
           p1 == extract_pos(objs, expressions, n1)
           rest1 == extract_remove(expressions, p1)
           p2 == extract_pos(objs, rest1, n2)
           rest2 == extract_remove(rest1, p2)
       IN  IF p1 = 0 \/ p2 = 0
           THEN \* expressions.remove(None)
                /\ outcome' = "ValueError"
                /\ pc' = "done"
                /\ UNCHANGED <<objs, expressions, moves>>
           ELSE LET e1 == expressions[p1]
                    e2 == rest1[p2]
                    made == InitOutcome(op, ObjValue(objs, e1), ObjValue(objs, e2))
                IN  IF made # "ok"
                    THEN /\ outcome' = made
                         /\ pc' = "done"
                         /\ expressions' = rest2
                         /\ UNCHANGED <<objs, moves>>
                    ELSE /\ objs' = Append(objs, NodeObj(op, e1, e2))
                         /\ expressions' = Append(rest2, Len(objs'))
                         /\ moves' = Tail(moves)
                         /\ UNCHANGED <<outcome, pc>>
    /\ UNCHANGED <<input_vars, search_vars, expression>>

\* moves_to_expression, lines 145-149, and the return of find_solution
ReplayEnd ==
    /\ UNCHANGED expr_vars
    /\ pc = "replay"
    /\ moves = <<>>
    /\ expression' = <<Closest(objs, cilj, expressions)>>
    /\ outcome' = "returned"
    /\ pc' = "done"
    /\ UNCHANGED <<input_vars, search_vars, objs, expressions, moves>>

\* ------------------------------------------------- parser.py: rendering
\* parser.precedence (None, here 0, for anything that is no operator)
precedence(operator) ==
    IF operator \in {"+", "-"} THEN 2
    ELSE IF operator \in {"/", "*"} THEN 3
    ELSE 0

associative_minus(operator) == operator \in {"+", "*", "-"}

\* parser.associative
associative(operator) == operator \in {"+", "*"}

Digits == <<"0", "1", "2", "3", "4", "5", "6", "7", "8", "9">>

RECURSIVE NatToChars(_)
NatToChars(n) ==
    IF n < 10 THEN <<Digits[n + 1]>>
    ELSE NatToChars(n \div 10) \o <<Digits[(n % 10) + 1]>>

\* '{}'.format(n) for an integer n, as a sequence of characters
IntToChars(n) == IF n < 0 THEN <<"-">> \o NatToChars(-n) ELSE NatToChars(n)

RECURSIVE rep(_, _, _)
\* BinaryIntegerArithmeticExpression.rep; "None" stands for None
rep(e, parent_op, side) ==
    IF e.o = "None" THEN IntToChars(e._value)
    ELSE LET r1 == rep(e.op1, e.o, "l")
             r2 == rep(e.op2, e.o, "r")
             r == r1 \o <<" ", e.o, " ">> \o r2
         IN  IF parent_op # "None" /\ precedence(parent_op) > precedence(e.o)
             THEN <<"(">> \o r \o <<")">>
             ELSE IF (~associative(parent_op)) /\ side = "r"
             THEN <<"(">> \o r \o <<")">>
             ELSE r

\* BinaryIntegerArithmeticExpression.__str__
Str(e) == rep(e, "None", "None")

\* --------------------------------------------------- parser.py: parsing
IsDigit(c) == \E d \in 1..10 : Digits[d] = c

DigitValue(c) == (CHOOSE d \in 1..10 : Digits[d] = c) - 1

RECURSIVE CharsToNat(_)
\* int(number) for a non-empty string of digits
CharsToNat(cs) ==
    IF Len(cs) = 1 THEN DigitValue(cs[1])
    ELSE 10 * CharsToNat(SubSeq(cs, 1, Len(cs) - 1)) + DigitValue(cs[Len(cs)])

\* the Token member appended for a character that is no digit and no blank
TokenType(c) ==
    CASE c = "(" -> "open_paren"
      [] c = ")" -> "close_paren"
      [] c = "+" -> "add"
      [] c = "-" -> "sub"
      [] c = "*" -> "mul"
      [] c = "/" -> "div"
      [] OTHER -> "unknown"

NumberToken(number) == [type |-> "number", num |-> CharsToNat(number), sym |-> ""]
SymbolToken(c) == [type |-> TokenType(c), num |-> 0, sym |-> c]

RECURSIVE TokenizeFrom(_, _, _, _)
\* the for loop of parse.tokenize from character i on; number is the digit
\* string collected so far (on_number is number # <<>>)
TokenizeFrom(s, i, tokens, number) ==
    IF i > Len(s)
    THEN [error |-> "",
          tokens |-> IF number # <<>> THEN Append(tokens, NumberToken(number))
                     ELSE tokens]
    ELSE IF IsDigit(s[i]) THEN TokenizeFrom(s, i + 1, tokens, Append(number, s[i]))
    ELSE LET flushed == IF number # <<>> THEN Append(tokens, NumberToken(number))
                        ELSE tokens
         IN  IF s[i] \in {" ", "\n", "\t"}
             THEN TokenizeFrom(s, i + 1, flushed, <<>>)
             ELSE IF TokenType(s[i]) = "unknown"
             THEN [error |-> "ExpressionParseError", tokens |-> flushed]
             ELSE TokenizeFrom(s, i + 1, Append(flushed, SymbolToken(s[i])), <<>>)

\* parse.tokenize
tokenize(s) == TokenizeFrom(s, 1, <<>>, <<>>)

Front(s) == SubSeq(s, 1, Len(s) - 1)
Last(s) == s[Len(s)]

NumberItem(n) == [isint |-> TRUE, num |-> n, sym |-> ""]
SymbolItem(c) == [isint |-> FALSE, num |-> 0, sym |-> c]

RECURSIVE PopOperatorsStrict(_, _, _)
PopOperatorsStrict(val, output_queue, operator_stack) ==
    IF operator_stack = <<>> THEN [q |-> output_queue, st |-> operator_stack]
    ELSE IF Last(operator_stack) = "(" THEN [q |-> output_queue, st |-> operator_stack]
    ELSE IF precedence(val) < precedence(Last(operator_stack))
    THEN PopOperatorsStrict(val,
             Append(output_queue, SymbolItem(Last(operator_stack))),
             Front(operator_stack))
    ELSE [q |-> output_queue, st |-> operator_stack]

RECURSIVE PopOperators(_, _, _)
\* the while loop of lines 164-175 for the operator val
PopOperators(val, output_queue, operator_stack) ==
    IF operator_stack = <<>> THEN [q |-> output_queue, st |-> operator_stack]
    ELSE IF Last(operator_stack) = "(" THEN [q |-> output_queue, st |-> operator_stack]
    ELSE IF precedence(val) <= precedence(Last(operator_stack))
    THEN PopOperators(val, Append(output_queue, SymbolItem(Last(operator_stack))),
                      Front(operator_stack))
    ELSE [q |-> output_queue, st |-> operator_stack]

RECURSIVE PopToOpen(_, _)
\* the while loop of lines 184-191: pops up to and including the last "("
PopToOpen(output_queue, operator_stack) ==
    IF operator_stack = <<>>
    THEN [q |-> output_queue, st |-> operator_stack, open_found |-> FALSE]
    ELSE IF Last(operator_stack) = "("
    THEN [q |-> output_queue, st |-> Front(operator_stack), open_found |-> TRUE]
    ELSE PopToOpen(Append(output_queue, SymbolItem(Last(operator_stack))),
                   Front(operator_stack))

RECURSIVE PopRemaining(_, _)
\* the while loop of lines 197-203
PopRemaining(output_queue, operator_stack) ==
    IF operator_stack = <<>> THEN [error |-> "", q |-> output_queue]
    ELSE IF Last(operator_stack) = "("
    THEN [error |-> "ExpressionParseError", q |-> output_queue]
    ELSE PopRemaining(Append(output_queue, SymbolItem(Last(operator_stack))),
                      Front(operator_stack))

RECURSIVE ShuntFrom(_, _, _, _)
\* the for loop of lines 157-194 from token i on
ShuntFrom(tokens, i, output_queue, operator_stack) ==
    IF i > Len(tokens) THEN PopRemaining(output_queue, operator_stack)
    ELSE LET token == tokens[i] IN
         IF token.type = "number"
         THEN ShuntFrom(tokens, i + 1, Append(output_queue, NumberItem(token.num)),
                        operator_stack)
         ELSE IF token.type \in {"add", "sub", "mul", "div"}
         THEN LET popped == PopOperators(token.sym, output_queue, operator_stack)
              IN  ShuntFrom(tokens, i + 1, popped.q, Append(popped.st, token.sym))
         ELSE IF token.type = "open_paren"
         THEN ShuntFrom(tokens, i + 1, output_queue, Append(operator_stack, token.sym))
         ELSE LET popped == PopToOpen(output_queue, operator_stack)
              IN  IF ~popped.open_found
                  THEN [error |-> "ExpressionParseError", q |-> popped.q]
                  ELSE ShuntFrom(tokens, i + 1, popped.q, popped.st)

\* parse, lines 154-203: the shunting-yard pass
shunting_yard(tokens) == ShuntFrom(tokens, 1, <<>>, <<>>)

Raised(exception) == [outcome |-> exception, e |-> <<>>]

RECURSIVE FoldFrom(_, _, _)
\* parse, lines 205-218: the postfix queue is folded into a tree
FoldFrom(output_queue, i, st) ==
    IF i > Len(output_queue)
    THEN IF st = <<>> THEN Raised("IndexError")
         ELSE [outcome |-> "Expression", e |-> <<Last(st)>>]
    ELSE LET item == output_queue[i] IN
         IF item.isint THEN FoldFrom(output_queue, i + 1, Append(st, Lit(item.num)))
         ELSE IF Len(st) < 2 THEN Raised("IndexError")
         ELSE LET operand2 == Last(st)
                  operand1 == Last(Front(st))
                  made == InitOutcome(item.sym, Value(operand1), Value(operand2))
              IN  IF made # "ok" THEN Raised(made)
                  ELSE FoldFrom(output_queue, i + 1,
                           Append(Front(Front(st)), Node(item.sym, operand1, operand2)))

\* BinaryIntegerArithmeticExpression.parse
parse(s) ==
    LET t == tokenize(s) IN
    IF t.error # "" THEN Raised(t.error)
    ELSE LET q == shunting_yard(t.tokens) IN
         IF q.error # "" THEN Raised(q.error)
         ELSE FoldFrom(q.q, 1, <<>>)

\* -------------------------------------------- a caller of parser.py
Operators == {"+", "-", "*", "/"}

RECURSIVE LeafCount(_)
LeafCount(e) == IF e.o = "None" THEN 1 ELSE LeafCount(e.op1) + LeafCount(e.op2)

RECURSIVE LeavesHeld(_)
LeavesHeld(st) == IF st = <<>> THEN 0 ELSE LeafCount(Head(st)) + LeavesHeld(Tail(st))

RECURSIVE ReadOutcome(_)
\* what reading e.value does: "ok", or the exception int(v1 / v2) raises
ReadOutcome(e) ==
    IF e.o = "None" THEN "ok"
    ELSE IF ReadOutcome(e.op1) # "ok" THEN ReadOutcome(e.op1)
    ELSE IF ReadOutcome(e.op2) # "ok" THEN ReadOutcome(e.op2)
    ELSE IF e.o \notin {"+", "-", "*"} /\ Value(e.op2) = 0 THEN "ZeroDivisionError"
    ELSE "ok"

\* BinaryIntegerArithmeticExpression(n)
NewLiteral ==
    /\ pc = "build"
    /\ LeavesHeld(stack) < MaxLeaves
    /\ \E n \in ExprLiterals : stack' = Append(stack, Lit(n))
    /\ UNCHANGED <<input_vars, search_vars, replay_vars, outcome, attempt,
                   value_read, text, removed, parsed, pc>>

\* BinaryIntegerArithmeticExpression(op1=, op2=, o=) on the two expressions
\* constructed last; the operands are consumed when the node is built
Compose ==
    /\ pc = "build"
    /\ Len(stack) >= 2
    /\ \E o \in Operators :
        LET op1 == Last(Front(stack))
            op2 == Last(stack)
            made == InitOutcome(o, Value(op1), Value(op2))
        IN  /\ attempt' = <<[o |-> o, op1 |-> op1, op2 |-> op2, made |-> made]>>
            /\ stack' = IF made = "ok"
                        THEN Append(Front(Front(stack)), Node(o, op1, op2))
                        ELSE stack
    /\ UNCHANGED <<input_vars, search_vars, replay_vars, outcome, value_read,
                   text, removed, parsed, pc>>

\* e.value of one of the expressions constructed so far
ReadValue ==
    /\ pc = "build"
    /\ value_read = <<>>
    /\ \E i \in 1..Len(stack) :
        value_read' = <<[of |-> i,
                         outcome |-> ReadOutcome(stack[i]),
                         value |-> IF ReadOutcome(stack[i]) = "ok"
                                   THEN Value(stack[i]) ELSE 0]>>
    /\ pc' = "read"
    /\ UNCHANGED <<input_vars, search_vars, replay_vars, outcome, stack, attempt,
                   text, removed, parsed>>

\* str(e) of the one expression in hand
Render ==
    /\ pc = "build"
    /\ Len(stack) = 1
    /\ text' = Str(stack[1])
    /\ pc' = "text"
    /\ UNCHANGED <<input_vars, search_vars, replay_vars, outcome, stack, attempt,
                   value_read, removed, parsed>>

RECURSIVE CloserOf(_, _, _)
\* the position of the ")" that closes the "(" before position i, depth
\* parentheses being open at i
CloserOf(s, i, depth) ==
    IF i > Len(s) THEN 0
    ELSE IF s[i] = "(" THEN CloserOf(s, i + 1, depth + 1)
    ELSE IF s[i] = ")" THEN (IF depth = 0 THEN i ELSE CloserOf(s, i + 1, depth - 1))
    ELSE CloserOf(s, i + 1, depth)

Openers(s) == {i \in 1..Len(s) : s[i] = "("}

WithoutPair(s, i) ==
    LET j == CloserOf(s, i + 1, 0)
    IN  SubSeq(s, 1, i - 1) \o SubSeq(s, i + 1, j - 1) \o SubSeq(s, j + 1, Len(s))

\* one parenthesis pair of the rendered string is deleted before it is parsed
DeletePair ==
    /\ pc = "text"
    /\ removed = 0
    /\ \E i \in Openers(text) :
        /\ removed' = i
        /\ text' = WithoutPair(text, i)
    /\ UNCHANGED <<input_vars, search_vars, replay_vars, outcome, stack, attempt,
                   value_read, parsed, pc>>

\* BinaryIntegerArithmeticExpression.parse(text)
Parse ==
    /\ pc = "text"
    /\ parsed' = parse(text)
    /\ pc' = "parsed"
    /\ UNCHANGED <<input_vars, search_vars, replay_vars, outcome, stack, attempt,
                   value_read, text, removed>>

InitInputs ==
    /\ brojevi \in UNION {[1..n -> (-NegNumber)..MaxNumber] : n \in 1..MaxNums}
    /\ cilj \in 0..MaxTarget
    /\ tolerance \in 0..MaxTol

InitRest ==
    /\ frontier = <<>>
    /\ fset = {}
    /\ visited = << >>
    /\ current = <<>>
    /\ pending = <<>>
    /\ popped_ids = <<>>
    /\ result = FALSE
    /\ path = <<>>
    /\ objs = <<>>
    /\ expressions = <<>>
    /\ moves = <<>>
    /\ expression = <<>>
    /\ outcome = "running"

InitExprRest ==
    /\ stack = <<>>
    /\ attempt = <<>>
    /\ value_read = <<>>
    /\ text = <<>>
    /\ removed = 0
    /\ parsed = [outcome |-> "none", e |-> <<>>]

\* find_solution as the solver calls it: AStarSearch without max_depth
Init ==
    /\ InitInputs
    /\ max_depth = 0
    /\ InitRest
    /\ InitExprRest
    /\ pc = "search"

Next ==
    \/ Seed \/ Pop \/ Child \/ Exhausted
    \/ NoPath \/ Trivial \/ BeginReplay \/ ReplayMove \/ ReplayEnd

Spec == Init /\ [][Next]_vars

\* AStarSearch(start, is_goal, heuristic, max_depth).do_search() on its own,
\* with or without a depth bound, on natural numbers and an exact target
InitDepth ==
    /\ brojevi \in UNION {[1..n -> 0..MaxNumber] : n \in 1..MaxNums}
    /\ cilj \in 0..MaxTarget
    /\ tolerance = 0
    /\ max_depth \in 0..MaxDepth
    /\ InitRest
    /\ InitExprRest
    /\ pc = "search"

NextDepth == Seed \/ Pop \/ Child \/ Exhausted

SpecDepth == InitDepth /\ [][NextDepth]_vars

\* do_search as find_solution runs it (no depth bound), as sequential code:
\* its next statement is always executed
InitUnbounded == InitDepth /\ max_depth = 0

FairSpecSearch == InitUnbounded /\ [][NextDepth]_vars /\ WF_vars(NextDepth)

InitNoSearch ==
    /\ brojevi = <<>>
    /\ cilj = 0
    /\ tolerance = 0
    /\ max_depth = 0
    /\ InitRest

\* a caller of parser.py that constructs expressions, reads their values,
\* renders one and parses the rendering
InitExpr ==
    /\ InitNoSearch
    /\ InitExprRest
    /\ pc = "build"

NextExpr == NewLiteral \/ Compose \/ ReadValue \/ Render \/ DeletePair \/ Parse

SpecExpr == InitExpr /\ [][NextExpr]_vars

\* a caller of parse with a text of its own
InitParse ==
    /\ InitNoSearch
    /\ stack = <<>>
    /\ attempt = <<>>
    /\ value_read = <<>>
    /\ text \in UNION {[1..n -> TextAlphabet] : n \in 0..MaxTextLen}
    /\ removed = 0
    /\ parsed = [outcome |-> "none", e |-> <<>>]
    /\ pc = "text"

NextParse == Parse

SpecParse == InitParse /\ [][NextParse]_vars

\* ---------------- a caller that types an infix text in and parses it
\* (the texts of the tests at the end of parser.py are of this form)
OpenCount(s) ==
    Cardinality({i \in 1..Len(s) : s[i] = "("})
    - Cardinality({i \in 1..Len(s) : s[i] = ")"})

\* the number of literals in the text: the places where a digit run starts
LiteralCount(s) ==
    Cardinality({i \in 1..Len(s) :
                    IsDigit(s[i]) /\ (i = 1 \/ ~IsDigit(s[i - 1]))})

\* the size of the text: its literals and its open parentheses
InfixSize(s) == LiteralCount(s) + Cardinality({i \in 1..Len(s) : s[i] = "("})

\* an operand has to come next: nothing is typed yet, or an operator
\* (typed with a blank on either side) or an open parenthesis came last
ExpectOperand(s) == IF s = <<>> THEN TRUE ELSE Last(s) \in {"(", " "}

TypeNumber ==
    /\ pc = "type"
    /\ ExpectOperand(text)
    /\ InfixSize(text) < MaxInfixSize
    /\ \E n \in InfixLiterals : text' = text \o NatToChars(n)
    /\ UNCHANGED <<input_vars, search_vars, replay_vars, outcome, stack, attempt,
                   value_read, removed, parsed, pc>>

TypeOperator ==
    /\ pc = "type"
    /\ ~ExpectOperand(text)
    /\ InfixSize(text) < MaxInfixSize
    /\ \E o \in Operators : text' = text \o <<" ", o, " ">>
    /\ UNCHANGED <<input_vars, search_vars, replay_vars, outcome, stack, attempt,
                   value_read, removed, parsed, pc>>

TypeOpen ==
    /\ pc = "type"
    /\ ExpectOperand(text)
    /\ InfixSize(text) + 1 < MaxInfixSize
    /\ text' = Append(text, "(")
    /\ UNCHANGED <<input_vars, search_vars, replay_vars, outcome, stack, attempt,
                   value_read, removed, parsed, pc>>

TypeClose ==
    /\ pc = "type"
    /\ ~ExpectOperand(text)
    /\ OpenCount(text) > 0
    /\ text' = Append(text, ")")
    /\ UNCHANGED <<input_vars, search_vars, replay_vars, outcome, stack, attempt,
                   value_read, removed, parsed, pc>>

\* the text is complete: every parenthesis is closed and no operand is due
Submit ==
    /\ pc = "type"
    /\ ~ExpectOperand(text)
    /\ OpenCount(text) = 0
    /\ pc' = "text"
    /\ UNCHANGED <<input_vars, search_vars, replay_vars, outcome, stack, attempt,
                   value_read, text, removed, parsed>>

InitInfix ==
    /\ InitNoSearch
    /\ InitExprRest
    /\ pc = "type"

NextInfix ==
    TypeNumber \/ TypeOperator \/ TypeOpen \/ TypeClose \/ Submit \/ Parse

SpecInfix == InitInfix /\ [][NextInfix]_vars
\* ================================================================ claims
Returned == outcome = "returned"
ReturnedValue == ObjValue(objs, expression[1])

\* C1: whenever find_solution returns (path, expression) instead of raising,
\* the value of the expression differs from the target by at most the
\* tolerance.
C1_ValueWithinTolerance ==
    Returned => Abs(ReturnedValue - cilj) <= tolerance

\* a replayed solution that leaves numbers unused and misses the target by
\* a non-zero amount within the tolerance
C1_Witness ==
    /\ Returned
    /\ path # <<>>
    /\ Len(expressions) > 1
    /\ ReturnedValue # cilj
    /\ expression[1] # expressions[1]

RECURSIVE GoalReachable(_)
\* some state reachable from the node by legal moves satisfies the goal test
GoalReachable(node) ==
    \/ is_goal_for(node, cilj, tolerance)
    \/ \E k \in 1..Len(possible_moves(node)) :
           GoalReachable(apply_move(node, possible_moves(node)[k]))

\* C2: without a max-depth bound do_search returns (True, path) exactly when
\* some state reachable from the root by legal moves satisfies the goal test;
\* otherwise it returns (False, None).
C2_SuccessIffGoalReachable ==
    (pc = "returned" /\ max_depth = 0) =>
        /\ result <=> GoalReachable(StartNode)
        /\ ~result => path = <<>> /\ frontier = <<>>
        /\ outcome = "running"

\* the frontier of a three-number search ran empty after expanding nodes
C2_Witness ==
    /\ pc = "returned"
    /\ ~result
    /\ Len(brojevi) = MaxNums
    /\ Cardinality(fset) > 3

RECURSIVE PathLegalFrom(_, _)
\* every move of the path is one possible_moves generates for the state it
\* is applied to
PathLegalFrom(node, p) ==
    \/ p = <<>>
    \/ /\ Contains(possible_moves(node), Head(p))
       /\ PathLegalFrom(apply_move(node, Head(p)), Tail(p))

RECURSIVE EndOfPath(_, _)
\* the state reached by applying the moves of the path one after another
EndOfPath(node, p) ==
    IF p = <<>> THEN node ELSE EndOfPath(apply_move(node, Head(p)), Tail(p))

\* C3: a path returned with True leads from the root to the popped goal node,
\* oldest move first: each move is legal where it is applied, there are as
\* many moves as the goal node is deep, and the state reached is the goal
\* node's state and satisfies the goal test.
C3_PathLeadsToGoal ==
    (pc = "returned" /\ result) =>
        /\ PathLegalFrom(StartNode, path)
        /\ Len(path) = get_path_depth(current[1])
        /\ EndOfPath(StartNode, path).data = current[1].data
        /\ is_goal_for(EndOfPath(StartNode, path), cilj, tolerance)

\* a returned path of two different moves
C3_Witness ==
    /\ pc = "returned"
    /\ result
    /\ Len(path) = 2
    /\ path[1] # path[2]
    /\ ~PathLegalFrom(StartNode, ParentWalk(current[1]))

RECURSIVE Leaves(_)
\* the literals of an expression tree, left to right
Leaves(e) ==
    IF e.o = "None" THEN <<e._value>> ELSE Leaves(e.op1) \o Leaves(e.op2)

Count(s, v) == Cardinality({i \in 1..Len(s) : s[i] = v})

SubMultiset(s, t) == \A i \in 1..Len(s) : Count(s, s[i]) <= Count(t, s[i])

\* the operand slots of the object table that refer to object k
UsesOf(tab, k) ==
    {u \in (1..Len(tab)) \X {1, 2} :
        /\ tab[u[1]].o # "None"
        /\ (IF u[2] = 1 THEN tab[u[1]].op1 ELSE tab[u[1]].op2) = k}

\* C4: the returned Expression uses every initial number at most once: its
\* literals form a sub-multiset of the initial numbers and no Expression
\* object is an operand of two nodes (or twice of one).
C4_NumbersUsedOnce ==
    Returned =>
        /\ SubMultiset(Leaves(TreeOf(objs, expression[1])), brojevi)
        /\ \A k \in 1..Len(objs) : Cardinality(UsesOf(objs, k)) <= 1

\* a returned expression of three literals, two of them equal
C4_Witness ==
    /\ Returned
    /\ Len(Leaves(TreeOf(objs, expression[1]))) = 3
    /\ \E v \in (-NegNumber)..MaxNumber :
           Count(Leaves(TreeOf(objs, expression[1])), v) = 2

NonNegative(b) == \A i \in 1..Len(b) : b[i] >= 0

\* the move is a subtraction of the smaller from the larger, an exact
\* division by a non-zero number, or another operation
MoveKeepsNatural(m) ==
    /\ m[2] = "-" => m[1] >= m[3]
    /\ m[2] = "/" => m[3] # 0 /\ PyMod(m[1], m[3]) = 0
                     /\ get_result(m[1], m[3], "/") * m[3] = m[1]

\* the nodes do_search holds: the popped one, its children, the frontier
HeldNodes ==
    {current[i] : i \in 1..Len(current)}
    \cup {pending[i] : i \in 1..Len(pending)}
    \cup {frontier[i].node : i \in 1..Len(frontier)}
    \cup {visited[k] : k \in DOMAIN visited}

\* C5: if the initial numbers are non-negative, every state generated by
\* possible_moves/apply_move holds non-negative integers only: subtractions
\* take the smaller from the larger and divisions are exact, by a non-zero
\* divisor.
C5_StatesStayNatural ==
    NonNegative(brojevi) =>
        \A n \in HeldNodes :
            /\ NonNegative(n.data.brojevi)
            /\ n.parent # <<>> => MoveKeepsNatural(n.move_to_reach)

\* children made by a subtraction with swapped operands and by a division
\* of unequal numbers are being looped over
C5_Witness ==
    /\ NonNegative(brojevi)
    /\ pc = "for"
    /\ \E i \in 1..Len(pending) :
           /\ pending[i].move_to_reach[2] = "-"
           /\ current[1].data.brojevi[1] = pending[i].move_to_reach[3]
           /\ pending[i].move_to_reach[1] > pending[i].move_to_reach[3]
    /\ \E i \in 1..Len(pending) :
           /\ pending[i].move_to_reach[2] = "/"
           /\ pending[i].move_to_reach[1] > pending[i].move_to_reach[3]

NoDuplicates(s) == \A i, j \in 1..Len(s) : i # j => s[i] # s[j]

\* the legal arithmetic combinations of the pair (n1, n2) as the claim
\* lists them
LegalCombinations(n1, n2) ==
    {<<n1, "*", n2>>, <<n1, "+", n2>>}
    \cup {IF n1 >= n2 THEN <<n1, "-", n2>> ELSE <<n2, "-", n1>>}
    \cup (IF n2 # 0 /\ PyMod(n1, n2) = 0 THEN {<<n1, "/", n2>>} ELSE {})
    \cup (IF n1 # 0 /\ PyMod(n2, n1) = 0 THEN {<<n2, "/", n1>>} ELSE {})

\* C6: for every expanded state and every pair of distinct positions,
\* possible_moves yields each legal arithmetic combination of the pair
\* exactly once, no move triple twice (as claimed; the code emits the
\* division of two equal non-zero numbers twice).
C6_EachCombinationOnce ==
    (current # <<>> /\ ~is_goal_for(current[1], cilj, tolerance)) =>
        LET b == current[1].data.brojevi
        IN  \A i, j \in 1..Len(b) : i < j =>
                /\ {PairMoves(b[i], b[j])[k] :
                       k \in 1..Len(PairMoves(b[i], b[j]))}
                   = LegalCombinations(b[i], b[j])
                /\ NoDuplicates(PairMoves(b[i], b[j]))
RECURSIVE HasDivision(_)
HasDivision(e) ==
    IF e.o = "None" THEN FALSE
    ELSE e.o = "/" \/ HasDivision(e.op1) \/ HasDivision(e.op2)

\* the rendering of the expression in hand was parsed as it was rendered
RoundTripDone == pc = "parsed" /\ removed = 0 /\ stack # <<>>

\* C7: for every valid expression tree without division, over integer
\* literals, parse(str(expr)) succeeds and its value is expr.value (as
\* claimed; the code cannot parse the rendering of a negative literal).
C7_RoundTripValue ==
    (RoundTripDone /\ ~HasDivision(stack[1])) =>
        /\ parsed.outcome = "Expression"
        /\ Value(parsed.e[1]) = Value(stack[1])

\* C8: no parenthesis pair str() emits is redundant: with any one pair
\* deleted, parse does not give back the original tree (as claimed; the
\* code also wraps a '*' or '/' right operand of '-').
C8_NoRedundantPair ==
    (pc = "parsed" /\ removed # 0) =>
        ~(parsed.outcome = "Expression" /\ parsed.e[1] = stack[1])

\* b divides a, said without % and without the model's division
Divides(b, a) == \E q \in (-Abs(a))..Abs(a) : q * b = a

C10_ParseOutcomes ==
    pc = "parsed" =>
        parsed.outcome \in
            {"Expression", "ExpressionParseError", "InvalidExpressionException"}

\* ------------------------------------------- reference infix evaluation
\* the exact quotient a / b, for b dividing a
Quotient(a, b) == CHOOSE q \in (-Abs(a))..Abs(a) : q * b = a

RECURSIVE SkipBlanks(_, _)
SkipBlanks(s, i) ==
    IF i <= Len(s) /\ s[i] = " " THEN SkipBlanks(s, i + 1) ELSE i

RefFail == [ok |-> FALSE, v |-> 0, next |-> 0]

RECURSIVE RefNumber(_, _, _)
RECURSIVE RefFactor(_, _)
RECURSIVE RefTermRest(_, _, _)
RECURSIVE RefTerm(_, _)
RECURSIVE RefExprRest(_, _, _)
RECURSIVE RefExpr(_, _)

\* the digits from position i on, read as a decimal number
RefNumber(s, i, acc) ==
    IF i <= Len(s) /\ IsDigit(s[i])
    THEN RefNumber(s, i + 1, 10 * acc + DigitValue(s[i]))
    ELSE [ok |-> TRUE, v |-> acc, next |-> SkipBlanks(s, i)]

\* factor ::= number | "(" expr ")"
RefFactor(s, i0) ==
    LET i == SkipBlanks(s, i0) IN
    IF i > Len(s) THEN RefFail
    ELSE IF IsDigit(s[i]) THEN RefNumber(s, i, 0)
    ELSE IF s[i] # "(" THEN RefFail
    ELSE LET r == RefExpr(s, i + 1) IN
         IF r.ok /\ r.next <= Len(s) /\ s[r.next] = ")"
         THEN [ok |-> TRUE, v |-> r.v, next |-> SkipBlanks(s, r.next + 1)]
         ELSE RefFail

\* term ::= factor (("*" | "/") factor)*, grouped from the left; acc is
\* the value of the factors read so far
RefTermRest(s, i, acc) ==
    IF i > Len(s) \/ s[i] \notin {"*", "/"}
    THEN [ok |-> TRUE, v |-> acc, next |-> i]
    ELSE LET f == RefFactor(s, i + 1) IN
         IF ~f.ok THEN RefFail
         ELSE IF s[i] = "*" THEN RefTermRest(s, f.next, acc * f.v)
         ELSE IF f.v # 0 /\ Divides(f.v, acc)
         THEN RefTermRest(s, f.next, Quotient(acc, f.v))
         ELSE RefFail

RefTerm(s, i) ==
    LET f == RefFactor(s, i) IN
    IF f.ok THEN RefTermRest(s, f.next, f.v) ELSE RefFail

\* expr ::= term (("+" | "-") term)*, grouped from the left
RefExprRest(s, i, acc) ==
    IF i > Len(s) \/ s[i] \notin {"+", "-"}
    THEN [ok |-> TRUE, v |-> acc, next |-> i]
    ELSE LET t == RefTerm(s, i + 1) IN
         IF ~t.ok THEN RefFail
         ELSE RefExprRest(s, t.next, IF s[i] = "+" THEN acc + t.v ELSE acc - t.v)

RefExpr(s, i) ==
    LET t == RefTerm(s, i) IN
    IF t.ok THEN RefExprRest(s, t.next, t.v) ELSE RefFail

\* the text as a whole is a well-formed expression with exact divisions
RefEval(s) ==
    LET r == RefExpr(s, 1) IN
    IF r.ok /\ r.next = Len(s) + 1 THEN r ELSE RefFail

\* C11: for every well-formed infix text over non-negative integer
\* literals, + - * / and balanced parentheses, all divisions exact, parse
\* returns a tree whose value is the reference evaluation: * and / bind
\* tighter than + and -, equal precedence groups from the left, parentheses
\* override both.
C11_ParseValueIsReference ==
    (pc = "parsed" /\ RefEval(text).ok) =>
        /\ parsed.outcome = "Expression"
        /\ Value(parsed.e[1]) = RefEval(text).v

\* '4 / 2 / 2' was parsed to a tree of value 1
C11_Witness ==
    /\ pc = "parsed"
    /\ text = <<"4", " ", "/", " ", "2", " ", "/", " ", "2">>
    /\ RefEval(text).ok
    /\ parsed.outcome = "Expression"
    /\ Value(parsed.e[1]) = 1

\* the lists that hold the numbers of b in another order
Permuted(b) ==
    {[i \in 1..Len(b) |-> b[f[i]]] :
        f \in {g \in [1..Len(b) -> 1..Len(b)] :
                  \A i, j \in 1..Len(b) : g[i] = g[j] => i = j}}

SuccessorIds(node) ==
    LET children == expand(node)
    IN  {_id(children[k]) : k \in 1..Len(children)}

\* the popped node has just been tested for the goal and expanded
JustPopped ==
    /\ current # <<>>
    /\ \/ pc = "returned"
       \/ /\ pc \in {"while", "for"}
          /\ Len(pending) = Len(possible_moves(current[1]))

Ascending(b) == \A i \in 1..(Len(b) - 1) : b[i] <= b[i + 1]

\* C12: two search states whose number lists are permutations of each
\* other have equal identity keys, compare equal, and give the same goal
\* test result, the same heuristic value and the same set of successor
\* identity keys.  (The successor keys of every state are compared with
\* those of its ascending permutation; two permutations of one list have
\* the same ascending permutation, so they agree with each other.)
C12_PermutedStatesInterchangeable ==
    JustPopped =>
        \A b \in Permuted(current[1].data.brojevi) :
            LET other == SearchNode([brojevi |-> b]) IN
            /\ _id(other) = _id(current[1])
            /\ NodeEq(other, current[1])
            /\ is_goal_for(other, cilj, tolerance)
                   <=> is_goal_for(current[1], cilj, tolerance)
            /\ heuristic_for(other, cilj) = heuristic_for(current[1], cilj)
            /\ Ascending(b) => SuccessorIds(other) = SuccessorIds(current[1])

\* a state of three different numbers, not in ascending order, is being
\* expanded and has successors of different keys
C12_Witness ==
    /\ pc = "for"
    /\ Len(current[1].data.brojevi) = 3
    /\ current[1].data.brojevi[1] > current[1].data.brojevi[2]
    /\ current[1].data.brojevi[2] > current[1].data.brojevi[3]
    /\ Cardinality(SuccessorIds(current[1])) > 3

\* the child the for loop of do_search looks at next is known by a path
\* that is no longer than its own
ChildNoBetter ==
    /\ pc = "for"
    /\ pending # <<>>
    /\ _id(Head(pending)) \in DOMAIN visited
    /\ get_path_length(Head(pending))
           >= get_path_length(visited[_id(Head(pending))])

\* C13: in a do_search run the path length of the node recorded in visited
\* for a key never increases, and a child whose path length is at least the
\* recorded one for its key is not inserted into the frontier, so that the
\* node popped for a key is the one recorded for it.
C13_BestKnownNeverWorse ==
    [][ /\ pc # "search" =>
            \A k \in DOMAIN visited :
                /\ k \in DOMAIN visited'
                /\ get_path_length(visited'[k]) <= get_path_length(visited[k])
        /\ ChildNoBetter => frontier' = frontier
        /\ (current' # current /\ current'[1].parent # <<>>) =>
               /\ _id(current'[1]) \in DOMAIN visited
               /\ visited[_id(current'[1])] = current'[1]
      ]_vars

\* two children of the popped node with the same key have been looked at:
\* the first is recorded in visited, the second was skipped
C13_Witness ==
    /\ pc \in {"for", "while"}
    /\ current # <<>>
    /\ LET children == expand(current[1])
           done == Len(children) - Len(pending)
       IN  \E j \in 1..done : \E i \in 1..(j - 1) :
               /\ _id(children[i]) = _id(children[j])
               /\ children[i] # children[j]
               /\ visited[_id(children[j])] = children[i]
               /\ Cardinality({f \in 1..Len(frontier) :
                      _id(frontier[f].node) = _id(children[j])}) = 1

\* some initial number is within the tolerance of the target
SolvedAtStart == \E i \in 1..Len(brojevi) : Abs(brojevi[i] - cilj) <= tolerance

\* C14: if some initial number is already within the tolerance of the
\* target, find_solution returns (it does not raise) an empty path and a
\* single-literal Expression whose value is an initial number closest to
\* the target, and do_search expands no node: only the root is popped, no
\* child is generated, recorded or pushed.
C14_SolvedAtStart ==
    SolvedAtStart =>
        /\ outcome \in {"running", "returned"}
        /\ pc = "done" => Returned
        /\ pending = <<>> /\ visited = << >> /\ Len(popped_ids) <= 1
        /\ \A i \in 1..Len(frontier) : frontier[i].node = StartNode
        /\ Returned =>
              /\ path = <<>>
              /\ TreeOf(objs, expression[1]).o = "None"
              /\ \E i \in 1..Len(brojevi) : brojevi[i] = ReturnedValue
              /\ \A i \in 1..Len(brojevi) :
                     Abs(ReturnedValue - cilj) <= Abs(brojevi[i] - cilj)

\* find_solution returned the third of three numbers, the closest one,
\* while the first is within the tolerance too
C14_Witness ==
    /\ Returned
    /\ path = <<>>
    /\ Len(brojevi) = 3
    /\ expression[1] = 3
    /\ Abs(brojevi[1] - cilj) <= tolerance
    /\ Abs(brojevi[3] - cilj) < Abs(brojevi[1] - cilj)

OpenKeys == {_id(frontier[i].node) : i \in 1..Len(frontier)}

\* C15: at every iteration of the do_search loop fset is the set of the
\* identity keys of the nodes in the frontier: a key enters when its node
\* is pushed and leaves when its node is popped (as claimed; the code
\* never removes a key from fset).
C15_FsetIsOpenKeys ==
    pc \in {"while", "for"} => fset = OpenKeys

\* the child the for loop looks at next passes the best-known test and
\* the in-frontier test
ChildPassesTests ==
    /\ pc = "for"
    /\ pending # <<>>
    /\ ~skips(Head(pending), visited, fset)

\* C16: with a depth bound D configured, a child that passes the two tests
\* is pushed on the frontier and recorded in visited exactly when its depth
\* does not exceed D; a child deeper than D leaves frontier, fset and
\* visited unchanged (as claimed; the code pushes only below D and records
\* the child in visited either way).
C16_DepthBoundDiscards ==
    [][ (max_depth > 0 /\ ChildPassesTests) =>
            LET new == Head(pending) IN
            IF get_path_depth(new) <= max_depth
            THEN /\ \E i \in 1..Len(frontier') : frontier'[i].node = new
                 /\ _id(new) \in fset'
                 /\ _id(new) \in DOMAIN visited'
                 /\ visited'[_id(new)] = new
            ELSE UNCHANGED <<frontier, fset, visited>>
      ]_vars

RECURSIVE ReachableIds(_, _)
\* the identity keys of the states reachable from the node by at most n
\* legal moves
ReachableIds(node, n) ==
    {_id(node)}
    \cup (IF n = 0 THEN {}
          ELSE UNION {ReachableIds(apply_move(node, possible_moves(node)[k]),
                                   n - 1) :
                         k \in 1..Len(possible_moves(node))})

\* every move took exactly one number away, so that no node is deeper than
\* the count of the initial numbers less one
OneNumberFewerPerMove ==
    \A n \in HeldNodes :
        /\ n.parent # <<>> =>
               Len(n.data.brojevi) = Len(n.parent[1].data.brojevi) - 1
        /\ Len(n.data.brojevi) = Len(brojevi) - get_path_depth(n)
        /\ get_path_depth(n) <= Len(brojevi) - 1

\* C17: for every initial list of at least one number do_search
\* terminates: every applied move shortens the number list by exactly one,
\* no path is longer than count(numbers) - 1 moves, and no more nodes are
\* popped than there are distinct reachable identity keys.
C17_SearchTerminates ==
    /\ [](OneNumberFewerPerMove /\ Len(path) <= Len(brojevi) - 1)
    /\ [](pc = "returned" =>
              Len(popped_ids)
                  <= Cardinality(ReachableIds(StartNode, Len(brojevi) - 1)))
    /\ <>(pc = "returned")

\* a search over three numbers ran the frontier empty after popping a
\* node of every depth
C17_Witness ==
    /\ pc = "returned"
    /\ ~result
    /\ max_depth = 0
    /\ Len(brojevi) = 3
    /\ Len(popped_ids) > 3
    /\ \E i \in 1..Len(popped_ids) : Len(popped_ids[i]) = 1

\* the values of the live Expression objects of moves_to_expression
LiveValues == [i \in 1..Len(expressions) |-> ObjValue(objs, expressions[i])]

\* the moves of the returned path that have been replayed
Replayed == SubSeq(path, 1, Len(path) - Len(moves))

SameMultiset(s, t) ==
    /\ Len(s) = Len(t)
    /\ \A i \in 1..Len(s) : Count(s, s[i]) = Count(t, s[i])

\* C18: replay refines the search: after each replayed move of a path
\* do_search returned, the values of the live Expression objects are, as a
\* multiset, the numbers of the search state reached by the same moves;
\* no operand look-up fails, no constructor refuses, and every division
\* node built is exact.
C18_ReplayRefinesSearch ==
    (result /\ pc \in {"replay", "done"}) =>
        /\ outcome \in {"running", "returned"}
        /\ SameMultiset(LiveValues, EndOfPath(StartNode, Replayed).data.brojevi)
        /\ \A k \in 1..Len(objs) :
               objs[k].o = "/" =>
                   /\ ObjValue(objs, objs[k].op2) # 0
                   /\ Divides(ObjValue(objs, objs[k].op2),
                              ObjValue(objs, objs[k].op1))

\* the first of two moves, a division, has been replayed and the second,
\* an addition of different numbers, has not
C18_Witness ==
    /\ pc = "replay"
    /\ Len(path) = 2
    /\ Len(moves) = 1
    /\ path[1][2] = "/"
    /\ objs[Len(objs)].o = "/"
    /\ path[2][2] = "+"
    /\ path[2][1] # path[2][3]

\* the keys of the frontier entries, in heap-list order
FrontierIds == [i \in 1..Len(frontier) |-> _id(frontier[i].node)]

\* C19: within one do_search run, with or without a depth bound, every
\* identity key is pushed on the frontier at most once: the keys in the
\* frontier and the keys popped so far are all different, so the frontier
\* never holds a key twice and no key is popped and expanded twice.
C19_KeyPushedOnce ==
    /\ NoDuplicates(FrontierIds \o popped_ids)
    /\ \A i \in 1..Len(popped_ids) : popped_ids[i] \in fset
    /\ OpenKeys \subseteq fset

\* a child whose key had been popped and expanded before was looked at and
\* not pushed again
C19_Witness ==
    /\ pc \in {"for", "while"}
    /\ current # <<>>
    /\ LET children == expand(current[1])
           done == Len(children) - Len(pending)
       IN  \E j \in 1..done : \E i \in 1..(Len(popped_ids) - 1) :
               /\ popped_ids[i] = _id(children[j])
               /\ _id(children[j]) \notin OpenKeys

\* the child is wrapped by the rule of the claim: it is no literal, and
\* (a) its operator binds less tightly than its parent's or (b) it is the
\* right operand of a '-' or '/'
ClaimWraps(child, parent_op, side) ==
    /\ child.o # "None"
    /\ \/ child.o \in {"+", "-"} /\ parent_op \in {"*", "/"}
       \/ side = "r" /\ parent_op \in {"-", "/"}

RECURSIVE ClaimRender(_)
\* the rendering by the rule of the claim; the root is not wrapped
ClaimRender(e) ==
    IF e.o = "None" THEN IntToChars(e._value)
    ELSE LET l == ClaimRender(e.op1)
             r == ClaimRender(e.op2)
         IN  (IF ClaimWraps(e.op1, e.o, "l") THEN <<"(">> \o l \o <<")">> ELSE l)
             \o <<" ", e.o, " ">>
             \o (IF ClaimWraps(e.op2, e.o, "r") THEN <<"(">> \o r \o <<")">> ELSE r)

\* the renderings the claim lists
RenderingExamples ==
    /\ Str(Node("+", Node("*", Lit(3), Lit(2)), Lit(2)))
           = <<"3", " ", "*", " ", "2", " ", "+", " ", "2">>
    /\ Str(Node("*", Lit(3), Node("+", Lit(2), Lit(2))))
           = <<"3", " ", "*", " ", "(", "2", " ", "+", " ", "2", ")">>
    /\ Str(Node("-", Lit(4), Node("+", Lit(2), Lit(2))))
           = <<"4", " ", "-", " ", "(", "2", " ", "+", " ", "2", ")">>
    /\ Str(Node("+", Node("-", Lit(4), Lit(2)), Lit(2)))
           = <<"4", " ", "-", " ", "2", " ", "+", " ", "2">>

\* str() of the expression in hand is in text, as it was rendered
Rendered == pc \in {"text", "parsed"} /\ removed = 0 /\ stack # <<>>

\* C20: str() wraps a non-literal child in parentheses if and only if (a)
\* its operator has strictly lower precedence than its parent's or (b) it
\* is the right operand of a '-' or '/' parent; literals and the root are
\* never wrapped; the four renderings the claim lists come out as listed.
C20_ParenthesesRule ==
    /\ Rendered => text = ClaimRender(stack[1])
    /\ RenderingExamples

\* a sum that is the right operand of a difference was rendered in
\* parentheses
C20_Witness ==
    /\ pc = "text"
    /\ removed = 0
    /\ stack = <<Node("-", Lit(2), Node("+", Lit(2), Lit(12)))>>
    /\ text = <<"2", " ", "-", " ", "(", "2", " ", "+", " ", "1", "2", ")">>
====
